---- MODULE Spec2Model ----
(***************************************************************************)
(* A model of the gin response cache of cache.go: the interceptor that    *)
(* New returns, Cache.Get / Cache.Set, the key derivation and the time    *)
(* bucketing (roundTimeUp, getTimeDiff, getCacheControl).                  *)
(*                                                                         *)
(* Time is counted in ticks since the Unix epoch; Second ticks make one   *)
(* second (the source counts nanoseconds, 1e9 to the second).  The wall   *)
(* clock that Cache.Get reads with time.Now() is the variable clock; the  *)
(* reference time "TimeNow" the host pipeline puts in the gin.Context is  *)
(* the wall clock of at most MaxLag ticks before the lookup.               *)
(*                                                                         *)
(* The host pipeline is outside cache.go.  It runs the interceptor on     *)
(* request slots, each with a gin.Context of its own: as a "stream", one   *)
(* request after the other through slot 1, or as a "pair", a request in    *)
(* slot 1 and, once that has completed, a second one in slot 2, or as a    *)
(* "race", requests in both slots at once, or as a "tap", a stream whose   *)
(* connection to the client may fail a body write.                         *)
(***************************************************************************)
EXTENDS Integers, Sequences, FiniteSets, TLC

VARIABLES
    clock,      \* the wall clock, time.Now()
    options,    \* cache.options: Store, Expire, DoNotUseAbort, Headers
    store,      \* the Store: a map from key to the stored bytes
    ctx,        \* per request slot: the gin.Context, the handler's locals and its position
    host        \* how the host pipeline feeds requests to the interceptor

vars == <<clock, options, store, ctx, host>>

\* ---------------------------------------------------------------- bounds
MaxTime   == 4      \* the wall clock runs over 0..MaxTime
TTL       == 2      \* the non-zero Expire the cache is configured with, in ticks
Second    == 2      \* ticks in one second
MaxLag    == 1      \* ticks between the host's TimeNow and Cache.Get's time.Now()
MaxWrites == 2      \* body writes a downstream handler makes

Reqs == {1, 2}

\* ---------------------------------------------------------------- time
\* time.Time{}: January 1, year 1, far before the Unix epoch.
ZeroTime == -216

\* The width of the integer UnixNano returns, scaled like the ticks: the zero
\* time lies 3.4 times the range before the epoch, as it does for int64 nanoseconds.
IntBits == 6

RECURSIVE Pow2(_)
Pow2(n) == IF n = 0 THEN 1 ELSE 2 * Pow2(n - 1)

\* Two's-complement wrap-around of Go's integer arithmetic.
WrapInt(x) == ((x + Pow2(IntBits - 1)) % Pow2(IntBits)) - Pow2(IntBits - 1)

\* Time.UnixNano
UnixNano(t) == WrapInt(t)

\* Time.Truncate: rounds down to a multiple of d since the zero time; d <= 0 returns t.
Truncate(t, d) == IF d <= 0 THEN t ELSE t - ((t - ZeroTime) % d)

\* A slip: an instant that is a multiple of the duration is its own boundary.
roundTimeUpToCeiling(t, defaultTime) ==
    IF Truncate(t, defaultTime) = t THEN t ELSE Truncate(t, defaultTime) + defaultTime

\* roundTimeUp
roundTimeUp(t, defaultTime) == Truncate(t, defaultTime) + defaultTime

\* A slip: the time since the start of the bucket, not the time to its end.
getTimeDiffSinceTruncate(t, defaultTime) == t - Truncate(t, defaultTime)

\* getTimeDiff
getTimeDiff(t, defaultTime) == roundTimeUp(t, defaultTime) - t

\* getExpiresAtTime
getExpiresAtTime(t, defaultTime) == roundTimeUp(t, defaultTime)

\* getCacheControl
getCacheControl(maxAge) ==
    IF maxAge = 0
    THEN "max-age=0, no-cache, no-store, must-revalidate"
    ELSE "max-age=" \o ToString(maxAge) \o ", public"

\* A slip: the nanoseconds are not brought to seconds.
MaxAgeInTicks(timeNow, expire) == getTimeDiff(timeNow, expire)

\* The argument of getCacheControl at both call sites: whole seconds of getTimeDiff.
MaxAge(timeNow, expire) == getTimeDiff(timeNow, expire) \div Second

\* A slip: the entry expires at the reference time, not at the bucket boundary.
ExpireAtForNoBucket(timeNow, expire) == IF expire = 0 THEN ZeroTime ELSE timeNow

\* A slip: the entry expires a whole duration after the reference time.
ExpireAtForPlainTTL(timeNow, expire) == IF expire = 0 THEN ZeroTime ELSE timeNow + expire

\* The ExpireAt closure of the miss path.
ExpireAtFor(timeNow, expire) ==
    IF expire = 0 THEN ZeroTime ELSE getExpiresAtTime(timeNow, expire)

\* ---------------------------------------------------------------- cache key
KEY_PREFIX == "gin:cache:"

\* Options.init: the allow-list used when the caller gives none.
DefaultHeaders ==
    <<"User-Agent", "Accept", "Accept-Encoding", "Accept-Language", "Cookie", "User-Agent">>

\* strings.Join(v, "")
RECURSIVE Join(_)
Join(v) == IF v = <<>> THEN "" ELSE Head(v) \o Join(Tail(v))

\* The loop over cache.options.Headers that extends tohash.
RECURSIVE AppendHeaders(_, _, _)
AppendHeaders(tohash, ks, header) ==
    IF ks = <<>> THEN tohash
    ELSE LET k == Head(ks)
         IN  AppendHeaders(IF k \in DOMAIN header
                              THEN (tohash \o k) \o Join(header[k])
                              ELSE tohash,
                           Tail(ks), header)

\* md5String: the hex digest, taken as an injective function of its input.
md5String(url) == ("<" \o url) \o ">"

\* A slip: the allow-listed headers are left out of the key.
DeriveKeyUriOnly(rq, headers) == KEY_PREFIX \o md5String(rq.uri)

\* The key New's handler derives for a request.
DeriveKey(rq, headers) == KEY_PREFIX \o md5String(AppendHeaders(rq.uri, headers, rq.header))

\* ---------------------------------------------------------------- http.Header
NoHeader == [k \in {} |-> <<>>]

Values(h, k) == IF k \in DOMAIN h THEN h[k] ELSE <<>>

\* Header.Add
HeaderAdd(h, k, v) == [x \in DOMAIN h \cup {k} |-> IF x = k THEN Append(Values(h, k), v) ELSE h[x]]

\* Header.Set
HeaderSet(h, k, v) == [x \in DOMAIN h \cup {k} |-> IF x = k THEN <<v>> ELSE h[x]]

\* The hit path's loop that Adds every stored value to the response's header.
AddAll(h, stored) == [x \in DOMAIN h \cup DOMAIN stored |-> Values(h, x) \o Values(stored, x)]

\* ---------------------------------------------------------------- Cached and gob
\* A Cached value; the zero value of each field is what gob leaves out.
ZeroCached == [Status |-> 0, Body |-> "", Header |-> NoHeader, ExpireAt |-> ZeroTime]

\* enc.Encode(*cch): gob sends the fields that are not their zero value.
Encode(cch) ==
    LET sent == {f \in {"Status", "Body", "Header", "ExpireAt"} : cch[f] # ZeroCached[f]}
    IN  [gob      |-> TRUE,
         fields   |-> sent,
         Status   |-> IF "Status" \in sent THEN cch.Status ELSE 0,
         Body     |-> IF "Body" \in sent THEN cch.Body ELSE "",
         Header   |-> IF "Header" \in sent THEN cch.Header ELSE NoHeader,
         ExpireAt |-> IF "ExpireAt" \in sent THEN cch.ExpireAt ELSE ZeroTime]

\* Bytes that are no gob stream of a Cached.
Junk == [gob |-> FALSE, fields |-> {}, Status |-> 0, Body |-> "", Header |-> NoHeader,
         ExpireAt |-> ZeroTime]

\* A nil *Cached.
Nil == [nil |-> TRUE]

\* dec.Decode(&cch): a fresh Cached with the sent fields filled in; on an error
\* (which Cache.Get drops) cch stays nil.
Decode(data) ==
    IF ~data.gob THEN Nil
    ELSE [Status   |-> IF "Status" \in data.fields THEN data.Status ELSE ZeroCached.Status,
          Body     |-> IF "Body" \in data.fields THEN data.Body ELSE ZeroCached.Body,
          Header   |-> IF "Header" \in data.fields THEN data.Header ELSE ZeroCached.Header,
          ExpireAt |-> IF "ExpireAt" \in data.fields THEN data.ExpireAt ELSE ZeroCached.ExpireAt]

\* The test of Cache.Get that decides a decoded entry is expired.
IsExpired(cch, now) == UnixNano(cch.ExpireAt) # 0 /\ cch.ExpireAt < now

\* ---------------------------------------------------------------- Store
\* The Store contract: Get fails with ErrNotFound on an absent key, Set fails with
\* ErrAlreadyExists on a present one, Remove deletes the key; any call may also
\* fail for a reason of the backend's own (fail), leaving the map as it was.
StoreGet(s, key, fail) ==
    IF fail THEN [data |-> Junk, err |-> "backend"]
    ELSE IF key \in DOMAIN s THEN [data |-> s[key], err |-> "nil"]
    ELSE [data |-> Junk, err |-> "not found"]

StoreSet(s, key, data, fail) ==
    IF fail THEN [store |-> s, err |-> "backend"]
    ELSE IF key \in DOMAIN s THEN [store |-> s, err |-> "already exists"]
    ELSE [store |-> [k \in DOMAIN s \cup {key} |-> IF k = key THEN data ELSE s[k]],
          err |-> "nil"]

StoreRemove(s, key, fail) ==
    IF fail THEN [store |-> s, err |-> "backend"]
    ELSE IF key \in DOMAIN s THEN [store |-> [k \in DOMAIN s \ {key} |-> s[k]], err |-> "nil"]
    ELSE [store |-> s, err |-> "not found"]

\* ---------------------------------------------------------------- requests
\* The requests the host pipeline hands to the interceptor.
Requests ==
    {[method |-> m, uri |-> "/a", header |-> [k \in {"Accept"} |-> <<"text/html">>]] :
        m \in {"GET", "POST"}}

NoRequest == [method |-> "", uri |-> "", header |-> NoHeader]

\* What a downstream handler writes: the chunks of its body writes.
Chunks == {"he"}

\* ResponseWriter.Write(p) returns (n, err): all of p and no error, or, when the
\* connection fails, an error after fewer than len(p) bytes.
WriteOutcomes(p, fails) ==
    IF fails THEN {[n |-> i, err |-> TRUE] : i \in 0..(Len(p) - 1)}
    ELSE {[n |-> Len(p), err |-> FALSE]}

\* A gin.Context before the interceptor runs, with the handler's locals unset:
\*   pc        where the request is: idle, remove (Cache.Get is about to call
\*             Store.Remove), next (downstream handlers are running), set (cache.Set
\*             is about to run), done, or panic
\*   timeNow   the "TimeNow" of the gin.Context
\*   now       the time.Now() that Cache.Get compares ExpireAt with
\*   cch       the entry Cache.Get decoded
\*   capture   c.Writer is the wrappedWriter
\*   status, written, header, body   the gin.ResponseWriter: the status, whether the
\*             header has been sent, the header map, the body bytes sent to the client
\*   rwbody    wrappedWriter.body
\*   found     what Cache.Get met: absent, error, corrupt, expired or fresh
\*   result    the path taken: BYPASS, MISS or HIT
\*   hset, writes   the downstream handler's progress
\*   nexts     how many times the downstream handlers were run
\*   gets, sets, removes, updates    calls made on the Store
\*   storeErr  a Store call returned an error other than ErrNotFound from Get
\*   window    the getTimeDiff(timeNow, Expire) the branch taken computed
\*   calls     the Write calls the downstream handlers made on c.Writer, each with
\*             its argument p and what it returned, n and err
\*   setErr    what the request's Store.Set returned, "" before the call
\*   setAt     the place of the request's Store.Set among those of the requests in
\*             the slots, 0 before the call
\*   errors    what the interceptor logged or attached to c.Errors
IdleCtx ==
    [pc |-> "idle", rq |-> NoRequest, key |-> "", timeNow |-> 0, now |-> 0,
     cch |-> Nil, found |-> "", result |-> "", capture |-> FALSE,
     status |-> 200, written |-> FALSE, header |-> NoHeader, body |-> "", rwbody |-> "",
     hset |-> FALSE, writes |-> 0, nexts |-> 0, aborted |-> FALSE,
     gets |-> 0, sets |-> 0, removes |-> 0, updates |-> 0, storeErr |-> FALSE,
     window |-> 0, calls |-> <<>>, setErr |-> "", setAt |-> 0, errors |-> 0]

\* gin's ResponseWriter.WriteHeader: a status given after the header went out is dropped.
WriteHeader(c, code) ==
    IF code > 0 /\ c.status # code /\ ~c.written THEN [c EXCEPT !.status = code] ELSE c

\* gin's ResponseWriter.Write(p) returning w: the header goes out and the first w.n
\* bytes of p reach the client.
ResponseWriterWrite(c, p, w) ==
    [c EXCEPT !.written = TRUE, !.body = @ \o SubSeq(p, 1, w.n)]

\* A slip: the tap keeps the bytes that went out, whatever the write returned.
wrappedWriterWriteKeepsSent(c, p, w) ==
    [ResponseWriterWrite(c, p, w) EXCEPT !.rwbody = @ \o SubSeq(p, 1, w.n)]

\* wrappedWriter.Write: forward p to the ResponseWriter and, if that returned no
\* error, keep p.
wrappedWriterWrite(c, p, w) ==
    [ResponseWriterWrite(c, p, w) EXCEPT !.rwbody = IF ~w.err THEN @ \o p ELSE @]

\* c.Writer.Write(p) as a downstream handler calls it, returning w.
WriterWrite(c, p, w) ==
    [(IF c.capture THEN wrappedWriterWrite(c, p, w) ELSE ResponseWriterWrite(c, p, w))
        EXCEPT !.writes = @ + 1,
               !.calls = Append(@, [p |-> p, n |-> w.n, err |-> w.err])]

\* The Cached value the miss path builds from the wrapped writer.
Captured(c) ==
    [Status |-> c.status, Body |-> c.rwbody, Header |-> c.header,
     ExpireAt |-> ExpireAtFor(c.timeNow, options.Expire)]

\* The miss branch up to c.Next(): wrap the writer, add the three headers, run downstream.
MissPrelude(c) ==
    [c EXCEPT !.result = "MISS",
              !.capture = TRUE,
              !.header = HeaderAdd(HeaderAdd(HeaderAdd(@, "Etag", c.key),
                                             "X-Gin-Cache-Hit", "MISS"),
                                   "Cache-Control",
                                   getCacheControl(MaxAge(c.timeNow, options.Expire))),
              !.window = getTimeDiff(c.timeNow, options.Expire),
              !.nexts = @ + 1,
              !.pc = "next"]

\* A slip: the hit branch never aborts, so downstream always runs after a hit.
ServeHitNoAbort(c, cch) ==
    LET c1 == WriteHeader(c, cch.Status)
        h  == HeaderSet(HeaderSet(AddAll(c1.header, cch.Header), "X-Gin-Cache-Hit", "HIT"),
                        "Cache-Control", getCacheControl(MaxAge(c.timeNow, options.Expire)))
    IN  [c1 EXCEPT !.result = "HIT", !.header = h, !.written = TRUE,
                   !.window = getTimeDiff(c.timeNow, options.Expire),
                   !.body = @ \o cch.Body, !.nexts = @ + 1, !.pc = "next"]

\* A slip: the hit marker is added to the replayed headers, not set over them.
ServeHitAddsMarker(c, cch) ==
    LET c1 == WriteHeader(c, cch.Status)
        h  == HeaderSet(HeaderAdd(AddAll(c1.header, cch.Header), "X-Gin-Cache-Hit", "HIT"),
                        "Cache-Control", getCacheControl(MaxAge(c.timeNow, options.Expire)))
    IN  [c1 EXCEPT !.result = "HIT", !.header = h, !.written = TRUE,
                   !.window = getTimeDiff(c.timeNow, options.Expire),
                   !.body = @ \o cch.Body,
                   !.aborted = ~options.DoNotUseAbort,
                   !.nexts = IF options.DoNotUseAbort THEN @ + 1 ELSE @,
                   !.pc = IF options.DoNotUseAbort THEN "next" ELSE "done"]

\* The hit branch: status, stored headers, the two Set calls, the body, then Abort
\* unless DoNotUseAbort, in which case gin goes on to the downstream handlers.
ServeHit(c, cch) ==
    LET c1 == WriteHeader(c, cch.Status)
        h  == HeaderSet(HeaderSet(AddAll(c1.header, cch.Header), "X-Gin-Cache-Hit", "HIT"),
                        "Cache-Control", getCacheControl(MaxAge(c.timeNow, options.Expire)))
    IN  [c1 EXCEPT !.result = "HIT",
                   !.header = h,
                   !.window = getTimeDiff(c.timeNow, options.Expire),
                   !.written = TRUE,
                   !.body = @ \o cch.Body,
                   !.aborted = ~options.DoNotUseAbort,
                   !.nexts = IF options.DoNotUseAbort THEN @ + 1 ELSE @,
                   !.pc = IF options.DoNotUseAbort THEN "next" ELSE "done"]

\* A slip: an error of Store.Get other than ErrNotFound fails the request.
AfterGetFailsOnError(c, got) ==
    IF got.err = "backend"
    THEN [WriteHeader(c, 500) EXCEPT !.found = "error", !.aborted = TRUE, !.pc = "done"]
    ELSE IF got.err # "nil" THEN MissPrelude([c EXCEPT !.found = "absent"])
    ELSE LET cch == Decode(got.data)
         IN  IF cch = Nil THEN [c EXCEPT !.found = "corrupt", !.pc = "panic"]
             ELSE IF IsExpired(cch, c.now)
                  THEN [c EXCEPT !.cch = cch, !.found = "expired", !.pc = "remove"]
                  ELSE ServeHit([c EXCEPT !.cch = cch, !.found = "fresh"], cch)

\* The outcome of Cache.Get and of the branch on it, once Store.Get returned got.
\* Bytes that do not decode leave cch nil, and cch.ExpireAt dereferences it.
AfterGet(c, got) ==
    IF got.err # "nil" THEN MissPrelude([c EXCEPT !.found = IF got.err = "not found"
                                                             THEN "absent" ELSE "error"])
    ELSE LET cch == Decode(got.data)
         IN  IF cch = Nil THEN [c EXCEPT !.found = "corrupt", !.pc = "panic"]
             ELSE IF IsExpired(cch, c.now)
                  THEN [c EXCEPT !.cch = cch, !.found = "expired", !.pc = "remove"]
                  ELSE ServeHit([c EXCEPT !.cch = cch, !.found = "fresh"], cch)

\* The failures the Store handed to New can answer a call with: a backend that
\* is "flaky" may fail any call, one that is "memory" fails none.
Fails == IF options.Store = "flaky" THEN BOOLEAN ELSE {FALSE}

\* A slip: POST requests are cached as well.
IsEligibleAlsoPost(rq) == rq.method \in {"GET", "POST"}

\* Only GET method available for caching.
IsEligible(rq) == rq.method = "GET"

\* The host lets a request into slot r.
MayEnter(r) ==
    /\ ctx[r].pc = "idle"
    /\ host = "stream" => r = 1
    /\ host = "pair" => \A q \in Reqs : q < r => ctx[q].pc = "done"
    /\ host = "tap" => r = 1
    /\ host \in {"stream", "pair", "race", "tap"}

\* ---------------------------------------------------------------- actions
Init ==
    /\ host = "stream"
    /\ clock = 0
    /\ options \in [Store : {"memory", "flaky"}, Expire : {0, TTL}, DoNotUseAbort : BOOLEAN,
                    Headers : {DefaultHeaders}]
    /\ store = [k \in {} |-> Junk]
    /\ ctx = [r \in Reqs |-> IdleCtx]

\* The interceptor is entered with a request that is not a GET: c.Next() and return.
Bypass(r) ==
    /\ MayEnter(r)
    /\ \E rq \in Requests :
          /\ ~IsEligible(rq)
          /\ ctx' = [ctx EXCEPT ![r] = [IdleCtx EXCEPT !.rq = rq, !.result = "BYPASS",
                                                       !.nexts = 1, !.pc = "next"]]
    /\ UNCHANGED <<clock, options, store, host>>

\* The interceptor is entered with a GET: derive the key, read TimeNow, and run
\* Cache.Get as far as its Store.Get, the decoding and the expiry test.
Lookup(r) ==
    /\ MayEnter(r)
    /\ \E rq \in Requests, lag \in 0..MaxLag, fail \in Fails :
          /\ IsEligible(rq)
          /\ lag <= clock
          /\ LET key == DeriveKey(rq, options.Headers)
                 got == StoreGet(store, key, fail)
                 c   == [IdleCtx EXCEPT !.rq = rq, !.key = key, !.timeNow = clock - lag,
                                        !.now = clock, !.gets = 1,
                                        !.storeErr = (got.err = "backend")]
             IN  ctx' = [ctx EXCEPT ![r] = AfterGet(c, got)]
    /\ UNCHANGED <<clock, options, store, host>>

\* A slip: the expired entry is reported as a miss but left in the Store.
RemoveSkipped(r) ==
    /\ ctx[r].pc = "remove"
    /\ ctx' = [ctx EXCEPT ![r] = MissPrelude([@ EXCEPT !.removes = @ + 1])]
    /\ UNCHANGED <<clock, options, store, host>>

\* Cache.Get found the entry expired: Store.Remove (its error dropped), return nil,
\* and the handler takes the miss branch.
Remove(r) ==
    /\ ctx[r].pc = "remove"
    /\ \E fail \in Fails :
          LET res == StoreRemove(store, ctx[r].key, fail)
          IN  /\ store' = res.store
              /\ ctx' = [ctx EXCEPT ![r] = MissPrelude([@ EXCEPT !.removes = @ + 1,
                                                                !.storeErr = (res.err # "nil")])]
    /\ UNCHANGED <<clock, options, host>>

\* A downstream handler sets its status and a header of its own.
HandlerHeader(r) ==
    /\ ctx[r].pc = "next"
    /\ ~ctx[r].hset
    /\ ctx[r].writes = 0
    /\ ctx' = [ctx EXCEPT ![r] =
                 [WriteHeader(@, 404) EXCEPT
                    !.hset = TRUE,
                    !.header = IF ctx[r].written THEN @
                               ELSE HeaderAdd(@, "Content-Type", "text/plain")]]
    /\ UNCHANGED <<clock, options, store, host>>

\* A slip: the entry is put in the Store as the body is written, not after c.Next().
HandlerWriteStoresEarly(r) ==
    /\ ctx[r].pc = "next"
    /\ ctx[r].writes < MaxWrites
    /\ \E p \in Chunks :
          \E w \in WriteOutcomes(p, FALSE) :
             LET c   == WriterWrite(ctx[r], p, w)
                 res == StoreSet(store, c.key, Encode(Captured(c)), FALSE)
             IN  /\ store' = IF c.capture THEN res.store ELSE store
                 /\ ctx' = [ctx EXCEPT ![r] =
                              [c EXCEPT !.sets = IF c.capture THEN @ + 1 ELSE @]]
    /\ UNCHANGED <<clock, options, host>>

\* A downstream handler writes a chunk of body through c.Writer: through
\* wrappedWriter.Write on the miss path, which keeps what was written without error.
HandlerWrite(r) ==
    /\ ctx[r].pc = "next"
    /\ ctx[r].writes < MaxWrites
    /\ \E p \in Chunks :
          \E w \in WriteOutcomes(p, FALSE) :
             ctx' = [ctx EXCEPT ![r] = WriterWrite(@, p, w)]
    /\ UNCHANGED <<clock, options, store, host>>

\* The same when the connection fails the write: an error, after fewer bytes than
\* len(p) have gone out.
HandlerWriteFails(r) ==
    /\ host = "tap"
    /\ ctx[r].pc = "next"
    /\ ctx[r].writes < MaxWrites
    /\ \E p \in Chunks :
          \E w \in WriteOutcomes(p, TRUE) :
             ctx' = [ctx EXCEPT ![r] = WriterWrite(@, p, w)]
    /\ UNCHANGED <<clock, options, store, host>>

\* The downstream handlers return: the request is over, or, on the miss path,
\* c.Next() returns into the interceptor, which puts the old writer back.
HandlerReturn(r) ==
    /\ ctx[r].pc = "next"
    /\ ctx' = [ctx EXCEPT ![r] = [@ EXCEPT !.capture = FALSE,
                                           !.pc = IF ctx[r].result = "MISS" THEN "set"
                                                  ELSE "done"]]
    /\ UNCHANGED <<clock, options, store, host>>

\* A slip: when Store.Set finds the key taken, the entry is put there with Store.Update.
SetThenUpdate(r) ==
    /\ ctx[r].pc = "set"
    /\ \E fail \in Fails :
          LET data   == Encode(Captured(ctx[r]))
              res    == StoreSet(store, ctx[r].key, data, fail)
              others == {ctx[q].setAt : q \in Reqs \ {r}}
              latest == CHOOSE m \in others : \A x \in others : x <= m
          IN  /\ store' = IF res.err = "already exists"
                          THEN [store EXCEPT ![ctx[r].key] = data]
                          ELSE res.store
              /\ ctx' = [ctx EXCEPT ![r] = [@ EXCEPT !.sets = @ + 1,
                                                     !.updates = IF res.err = "already exists"
                                                                 THEN @ + 1 ELSE @,
                                                     !.storeErr = @ \/ (res.err # "nil"),
                                                     !.setErr = res.err,
                                                     !.setAt = latest + 1,
                                                     !.pc = "done"]]
    /\ UNCHANGED <<clock, options, host>>

\* cache.Set(key, &Cached{...}): encode and Store.Set; the error is dropped.
Set(r) ==
    /\ ctx[r].pc = "set"
    /\ \E fail \in Fails :
          LET res == StoreSet(store, ctx[r].key, Encode(Captured(ctx[r])), fail)
              others == {ctx[q].setAt : q \in Reqs \ {r}}
              latest == CHOOSE m \in others : \A x \in others : x <= m
          IN  /\ store' = res.store
              /\ ctx' = [ctx EXCEPT ![r] = [@ EXCEPT !.sets = @ + 1,
                                                     !.storeErr = @ \/ (res.err # "nil"),
                                                     !.setErr = res.err,
                                                     !.setAt = latest + 1,
                                                     !.pc = "done"]]
    /\ UNCHANGED <<clock, options, host>>

\* The slot takes the next request: a new gin.Context.
Reset(r) ==
    /\ host \in {"stream", "race", "tap"}
    /\ ctx[r].pc \in {"done", "panic"}
    /\ ctx' = [ctx EXCEPT ![r] = IdleCtx]
    /\ UNCHANGED <<clock, options, store, host>>

\* An administrator removes a key from the Store.
AdminRemove ==
    /\ \E key \in DOMAIN store : store' = StoreRemove(store, key, FALSE).store
    /\ UNCHANGED <<clock, options, ctx, host>>

\* Bytes that are no gob stream of a Cached come to lie under the key of a GET:
\* another writer on the shared backend, or a Cached of another schema.
Corrupt ==
    /\ \E rq \in Requests :
          /\ IsEligible(rq)
          /\ LET key == DeriveKey(rq, options.Headers)
             IN  /\ key \in DOMAIN store => store[key] # Junk
                 /\ store' = [k \in DOMAIN store \cup {key} |->
                                 IF k = key THEN Junk ELSE store[k]]
    /\ UNCHANGED <<clock, options, ctx, host>>

\* Time passes.
Tick ==
    /\ clock < MaxTime
    /\ clock' = clock + 1
    /\ UNCHANGED <<options, store, ctx, host>>

Next ==
    \/ \E r \in Reqs : Bypass(r)
    \/ \E r \in Reqs : Lookup(r)
    \/ \E r \in Reqs : Remove(r)
    \/ \E r \in Reqs : HandlerHeader(r)
    \/ \E r \in Reqs : HandlerWrite(r)
    \/ \E r \in Reqs : HandlerReturn(r)
    \/ \E r \in Reqs : Set(r)
    \/ \E r \in Reqs : Reset(r)
    \/ AdminRemove
    \/ Corrupt
    \/ Tick

\* A stream of requests, one after the other.
Spec == Init /\ [][Next]_vars

\* Two requests, the second entering when the first has completed, on a Store
\* that fails no call.
InitPair ==
    /\ host = "pair"
    /\ clock = 0
    /\ options \in [Store : {"memory"}, Expire : {0, TTL}, DoNotUseAbort : BOOLEAN,
                    Headers : {DefaultHeaders}]
    /\ store = [k \in {} |-> Junk]
    /\ ctx = [r \in Reqs |-> IdleCtx]

NextPair ==
    \/ \E r \in Reqs : Bypass(r)
    \/ \E r \in Reqs : Lookup(r)
    \/ \E r \in Reqs : Remove(r)
    \/ \E r \in Reqs : HandlerHeader(r)
    \/ \E r \in Reqs : HandlerWrite(r)
    \/ \E r \in Reqs : HandlerReturn(r)
    \/ \E r \in Reqs : Set(r)
    \/ AdminRemove
    \/ Tick

SpecPair == InitPair /\ [][NextPair]_vars

\* ---------------------------------------------------------------- key derivation alone
\* The requests and allow-lists the key derivation is tried on.
KeyRequests ==
    {[method |-> "GET", uri |-> u, header |-> h] :
        u \in {"/a", "/a?x=1"},
        h \in {NoHeader}
              \cup {[k \in {"Accept"} |-> v] : v \in {<<"a">>, <<"ab">>, <<"a", "b">>}}
              \cup {[k \in {"X-Trace"} |-> <<"t">>]}
              \cup {[k \in {"Accept", "X-Trace"} |-> IF k = "Accept" THEN v ELSE <<"t">>] :
                       v \in {<<"a">>, <<"ab">>}}
              \cup {[k \in {"Cookie"} |-> <<"a">>]}}

AllowLists == {DefaultHeaders, <<"Accept">>, <<>>}

\* Each slot holds a request; nothing is derived yet.
InitKey ==
    /\ host = "keys"
    /\ clock = 0
    /\ options \in [Store : {"memory"}, Expire : {0}, DoNotUseAbort : {FALSE},
                    Headers : AllowLists]
    /\ store = [k \in {} |-> Junk]
    /\ ctx \in [Reqs -> {[IdleCtx EXCEPT !.rq = rq] : rq \in KeyRequests}]

\* The handler's key derivation for the request in slot r, and no further.
Derive(r) ==
    /\ host = "keys"
    /\ ctx[r].pc = "idle"
    /\ IsEligible(ctx[r].rq)
    /\ ctx' = [ctx EXCEPT ![r] = [@ EXCEPT !.key = DeriveKey(ctx[r].rq, options.Headers),
                                           !.pc = "keyed"]]
    /\ UNCHANGED <<clock, options, store, host>>

NextKey == \E r \in Reqs : Derive(r)

SpecKey == InitKey /\ [][NextKey]_vars

\* ---------------------------------------------------------------- requests at once
\* Requests in both slots at once, each a goroutine of its own, on a Store that
\* fails no call and a wall clock that stands still within the bucket.
InitRace ==
    /\ host = "race"
    /\ clock = 0
    /\ options \in [Store : {"memory"}, Expire : {TTL}, DoNotUseAbort : BOOLEAN,
                    Headers : {DefaultHeaders}]
    /\ store = [k \in {} |-> Junk]
    /\ ctx = [r \in Reqs |-> IdleCtx]

NextRace ==
    \/ \E r \in Reqs : Bypass(r)
    \/ \E r \in Reqs : Lookup(r)
    \/ \E r \in Reqs : HandlerHeader(r)
    \/ \E r \in Reqs : HandlerWrite(r)
    \/ \E r \in Reqs : HandlerReturn(r)
    \/ \E r \in Reqs : Set(r)
    \/ \E r \in Reqs : Reset(r)

SpecRace == InitRace /\ [][NextRace]_vars

\* ---------------------------------------------------------------- failing body writes
\* A stream of requests whose connection may fail a body write.
InitTap ==
    /\ host = "tap"
    /\ clock = 0
    /\ options \in [Store : {"memory"}, Expire : {TTL}, DoNotUseAbort : BOOLEAN,
                    Headers : {DefaultHeaders}]
    /\ store = [k \in {} |-> Junk]
    /\ ctx = [r \in Reqs |-> IdleCtx]

NextTap ==
    \/ \E r \in Reqs : Bypass(r)
    \/ \E r \in Reqs : Lookup(r)
    \/ \E r \in Reqs : HandlerHeader(r)
    \/ \E r \in Reqs : HandlerWrite(r)
    \/ \E r \in Reqs : HandlerWriteFails(r)
    \/ \E r \in Reqs : HandlerReturn(r)
    \/ \E r \in Reqs : Set(r)
    \/ \E r \in Reqs : Reset(r)
    \/ AdminRemove

SpecTap == InitTap /\ [][NextTap]_vars

\* ---------------------------------------------------------------- time bucketing alone
\* The durations the bucketing is tried on: none, and some that do and do not
\* divide the distance of the zero time from the Unix epoch.
Durations == {0, TTL, TTL + 1, TTL + 3}

\* Each slot holds a reference time; nothing is computed yet.
InitTime ==
    /\ host = "times"
    /\ clock = 0
    /\ options \in [Store : {"memory"}, Expire : Durations, DoNotUseAbort : {FALSE},
                    Headers : {DefaultHeaders}]
    /\ store = [k \in {} |-> Junk]
    /\ ctx \in [Reqs -> {[IdleCtx EXCEPT !.timeNow = t] : t \in 0..MaxTime}]

\* The miss branch's time computations for the reference time in slot r, and no
\* more: the getTimeDiff of its Cache-Control and the ExpireAt of its Cached.
Stamp(r) ==
    /\ host = "times"
    /\ ctx[r].pc = "idle"
    /\ ctx' = [ctx EXCEPT ![r] =
                 [@ EXCEPT !.window = getTimeDiff(ctx[r].timeNow, options.Expire),
                           !.cch = Captured(ctx[r]),
                           !.pc = "stamped"]]
    /\ UNCHANGED <<clock, options, store, host>>

NextTime == \E r \in Reqs : Stamp(r)

SpecTime == InitTime /\ [][NextTime]_vars

\* ---------------------------------------------------------------- vocabulary of the claims
Done(r) == ctx[r].pc = "done"

\* The request in slot r has entered the interceptor and is eligible, or is not.
Entered(r) == ctx[r].pc \notin {"idle", "keyed", "stamped"}
EligibleReq(r) == Entered(r) /\ ctx[r].rq.method = "GET"
IneligibleReq(r) == Entered(r) /\ ctx[r].rq.method # "GET"

\* An expireAt that is set: any instant but the zero value.
IsSet(expireAt) == expireAt # ZeroTime

\* No Store call of the request in slot r has failed.
StoreHeld(r) == ~ctx[r].storeErr

IsPrefix(p, b) == Len(p) <= Len(b) /\ SubSeq(b, 1, Len(p)) = p

CacheHeaders == {"Etag", "X-Gin-Cache-Hit", "Cache-Control"}

NoStoreDirective == "max-age=0, no-cache, no-store, must-revalidate"

\* Two completed requests for one key, the first of which found no entry, on a
\* Store that failed no call; the second's Store.Get found the key, which on such a
\* Store is to say that nothing removed it in between.
FirstThenSecond ==
    /\ host = "pair"
    /\ Done(1) /\ Done(2)
    /\ EligibleReq(1) /\ EligibleReq(2)
    /\ ctx[1].key = ctx[2].key
    /\ ctx[1].found = "absent"
    /\ StoreHeld(1) /\ StoreHeld(2)
    /\ ctx[2].found \in {"fresh", "expired"}

MissThenHit ==
    /\ ctx[1].result = "MISS"
    /\ ctx[2].result = "HIT"
    /\ ~options.DoNotUseAbort => ctx[2].nexts = 0

\* ---------------------------------------------------------------- C1
\* C1, as claimed: with a TTL D > 0 and a Store that never fails, of two GET requests
\* with the same key, the first finding no entry and the second arriving less than D
\* after the first with no removal in between, the first is a MISS and the second a
\* HIT for which downstream is not invoked (abort enabled).
C1_WithinTTL ==
    ( /\ options.Expire > 0
      /\ FirstThenSecond
      /\ ctx[2].timeNow - ctx[1].timeNow < options.Expire )
    => MissThenHit

\* C1, amended: the same, for a second request whose lookup happens before the
\* first's bucket boundary roundTimeUp(t1, D), the expireAt the first one stored.
C1_WithinBucket ==
    ( /\ options.Expire > 0
      /\ FirstThenSecond
      /\ ctx[2].now < roundTimeUp(ctx[1].timeNow, options.Expire) )
    => MissThenHit

C1_Witness ==
    /\ options.Expire > 0
    /\ ~options.DoNotUseAbort
    /\ FirstThenSecond
    /\ ctx[2].now < roundTimeUp(ctx[1].timeNow, options.Expire)
    /\ ctx[2].now > ctx[1].now
    /\ ctx[2].result = "HIT"
    /\ ctx[2].nexts = 0

\* ---------------------------------------------------------------- C2
\* C2: with a TTL of 0 the entry persisted on a miss has the zero-value expireAt, and
\* a later GET for the same key, the key not removed in between, is served that entry
\* as a HIT; the lookup does not remove the entry.
C2_ZeroTTLServedForever ==
    ( /\ options.Expire = 0
      /\ FirstThenSecond )
    => /\ ~IsSet(ctx[2].cch.ExpireAt)
       /\ ctx[2].result = "HIT"
       /\ ctx[2].removes = 0

\* ---------------------------------------------------------------- C3
\* C3: no request is answered from a stored entry whose expireAt is set and is at or
\* before the current time; such an entry is treated as absent, a Store.Remove is
\* issued for its key and the request takes the miss path.
C3_NeverServedAtOrAfterExpiry ==
    \A r \in Reqs :
        ( /\ EligibleReq(r)
          /\ ctx[r].found \in {"fresh", "expired"}
          /\ IsSet(ctx[r].cch.ExpireAt)
          /\ ctx[r].cch.ExpireAt <= ctx[r].now )
        => /\ ctx[r].result # "HIT"
           /\ ctx[r].found = "expired"
           /\ ctx[r].pc # "remove" => (ctx[r].removes = 1 /\ ctx[r].result = "MISS")

\* ---------------------------------------------------------------- C4
\* C4: for a request whose method is not GET the interceptor makes no Store call,
\* adds none of the headers Etag, X-Gin-Cache-Hit and Cache-Control, leaves the Store
\* unchanged in each of the request's steps, and runs downstream exactly once.
C4_IneligibleBypasses ==
    /\ [](\A r \in Reqs :
            IneligibleReq(r) =>
                /\ ctx[r].gets = 0 /\ ctx[r].sets = 0
                /\ ctx[r].removes = 0 /\ ctx[r].updates = 0
                /\ DOMAIN ctx[r].header \cap CacheHeaders = {}
                /\ ctx[r].nexts = 1)
    /\ [][\A r \in Reqs :
            (ctx'[r] # ctx[r] /\ ctx'[r].rq.method \notin {"", "GET"}) => store' = store]_vars

C4_Witness ==
    \E r \in Reqs :
        /\ IneligibleReq(r)
        /\ Done(r)
        /\ ctx[r].body # ""
        /\ DOMAIN store # {}

\* ---------------------------------------------------------------- C5
StoredValuesPresent(r, names) ==
    \A k \in names :
        \A i \in 1..Len(ctx[r].cch.Header[k]) :
            \E j \in 1..Len(Values(ctx[r].header, k)) :
                ctx[r].header[k][j] = ctx[r].cch.Header[k][i]

\* C5, as claimed: on a fresh hit the response's status and body are exactly the
\* stored entry's and every stored header value is on the response; without
\* DoNotUseAbort the downstream handlers never run, with it they run and the status
\* and body written from the entry are what the response keeps.
C5_HitReplaysEntry ==
    \A r \in Reqs :
        ctx[r].result = "HIT" =>
            /\ ctx[r].status = ctx[r].cch.Status
            /\ ctx[r].body = ctx[r].cch.Body
            /\ StoredValuesPresent(r, DOMAIN ctx[r].cch.Header)
            /\ ~options.DoNotUseAbort => ctx[r].nexts = 0
            /\ options.DoNotUseAbort => ctx[r].nexts = 1

\* C5, amended: on a fresh hit the status is the stored entry's, the stored headers
\* other than X-Gin-Cache-Hit and Cache-Control (which the hit path overwrites) are
\* all on the response, and the body starts with the stored body; without
\* DoNotUseAbort the downstream handlers never run and the body is exactly the
\* stored one, with it they run once and what they write follows the stored body.
C5_HitReplaysEntryAmended ==
    \A r \in Reqs :
        ctx[r].result = "HIT" =>
            /\ ctx[r].status = ctx[r].cch.Status
            /\ IsPrefix(ctx[r].cch.Body, ctx[r].body)
            /\ StoredValuesPresent(r, DOMAIN ctx[r].cch.Header
                                         \ {"X-Gin-Cache-Hit", "Cache-Control"})
            /\ ~options.DoNotUseAbort =>
                   (ctx[r].nexts = 0 /\ Done(r) /\ ctx[r].body = ctx[r].cch.Body)
            /\ options.DoNotUseAbort => ctx[r].nexts = 1

C5_Witness ==
    \E r \in Reqs :
        /\ ctx[r].result = "HIT"
        /\ Done(r)
        /\ options.DoNotUseAbort
        /\ ctx[r].cch.Body # ""
        /\ ctx[r].cch.Status = 404
        /\ "Content-Type" \in DOMAIN ctx[r].cch.Header
        /\ ctx[r].hset
        /\ ctx[r].body # ctx[r].cch.Body

\* ---------------------------------------------------------------- C6
\* C6: if the Store holds under key k an entry whose expireAt is set and lies in the
\* past, a lookup of k reports a miss, and when its Store.Remove succeeds k is absent
\* from the Store right after the lookup.
C6_ExpiredLookupMissesAndRemoves ==
    [][\A r \in Reqs :
         /\ ( /\ ctx[r].pc = "idle" /\ ctx'[r].pc # "idle"
              /\ ctx'[r].rq.method = "GET"
              /\ ~ctx'[r].storeErr
              /\ ctx'[r].key \in DOMAIN store
              /\ store[ctx'[r].key].gob
              /\ IsSet(Decode(store[ctx'[r].key]).ExpireAt)
              /\ Decode(store[ctx'[r].key]).ExpireAt < clock )
            => (ctx'[r].pc = "remove" /\ ctx'[r].result # "HIT")
         /\ (ctx[r].pc = "remove" /\ ctx'[r].pc # "remove")
            => /\ ctx'[r].result = "MISS"
               /\ ctx'[r].removes = 1
               /\ ~ctx'[r].storeErr => ctx'[r].key \notin DOMAIN store'
    ]_vars

C6_Witness ==
    \E r \in Reqs :
        /\ ctx[r].found = "expired"
        /\ IsSet(ctx[r].cch.ExpireAt)
        /\ ctx[r].cch.ExpireAt < ctx[r].now
        /\ ctx[r].pc = "next"
        /\ ctx[r].result = "MISS"
        /\ ctx[r].writes = 0 /\ ~ctx[r].hset
        /\ ~ctx[r].storeErr
        /\ ctx[r].key \notin DOMAIN store

\* ---------------------------------------------------------------- C7
\* C7: every eligible request makes exactly one Store.Get and at most one Store.Set;
\* Store.Remove is issued at most once and only when the looked-up entry was found
\* expired (its expireAt set and not after the time of the lookup); a request served
\* as a fresh hit makes no Store.Set, Store.Update or Store.Remove.
C7_StoreCallsPerRequest ==
    \A r \in Reqs :
        EligibleReq(r) =>
            /\ ctx[r].gets = 1
            /\ ctx[r].sets <= 1
            /\ ctx[r].removes <= 1
            /\ ctx[r].removes = 1 =>
                   /\ ctx[r].found = "expired"
                   /\ IsSet(ctx[r].cch.ExpireAt)
                   /\ ctx[r].cch.ExpireAt <= ctx[r].now
            /\ ctx[r].result = "HIT" =>
                   (ctx[r].sets = 0 /\ ctx[r].updates = 0 /\ ctx[r].removes = 0)

\* ---------------------------------------------------------------- C8
\* The remaining freshness window of reference time t for a TTL d > 0: the distance
\* to the next multiple of d after t; and its whole seconds.
Remaining(t, d) == CHOOSE w \in 1..d : (t + w - ZeroTime) % d = 0
WholeSeconds(w) == CHOOSE n \in 0..w : n * Second <= w /\ w < (n + 1) * Second

\* The one Cache-Control value on the response of the request in slot r.
CacheControlIs(r, v) == Values(ctx[r].header, "Cache-Control") = <<v>>

Answered(r) == EligibleReq(r) /\ ctx[r].result \in {"MISS", "HIT"}

\* C8, as claimed: on every eligible request the Cache-Control set by the cache is
\* the no-store directive if and only if the TTL is 0, and with a non-zero TTL it is
\* max-age=<s>, public with s the whole seconds of the remaining window, also less
\* than a second before the bucket boundary.
C8_NoStoreIffZeroTTL ==
    \A r \in Reqs :
        Answered(r) =>
            IF options.Expire = 0 THEN CacheControlIs(r, NoStoreDirective)
            ELSE LET n == WholeSeconds(Remaining(ctx[r].timeNow, options.Expire))
                 IN  CacheControlIs(r, ("max-age=" \o ToString(n)) \o ", public")

\* C8, amended: the Cache-Control set by the cache is the no-store directive if and
\* only if the whole seconds of the remaining window are 0, which is so with a TTL
\* of 0 and also less than a second before the bucket boundary; otherwise it is
\* max-age=<s>, public.
C8_NoStoreIffZeroSeconds ==
    \A r \in Reqs :
        Answered(r) =>
            LET n == IF options.Expire = 0 THEN 0
                     ELSE WholeSeconds(Remaining(ctx[r].timeNow, options.Expire))
            IN  IF n = 0 THEN CacheControlIs(r, NoStoreDirective)
                ELSE CacheControlIs(r, ("max-age=" \o ToString(n)) \o ", public")

C8_Witness ==
    /\ options.Expire > 0
    /\ \E r \in Reqs :
        /\ Answered(r)
        /\ ctx[r].result = "HIT"
        /\ Remaining(ctx[r].timeNow, options.Expire) < Second
        /\ CacheControlIs(r, NoStoreDirective)

\* ---------------------------------------------------------------- C9
\* C9: every response to an eligible request carries an Etag equal to the derived key
\* and one X-Gin-Cache-Hit value: MISS on the miss path, HIT when served from a stored
\* entry, the MISS kept in the stored headers never replayed with or for it.
C9_EtagAndMarker ==
    \A r \in Reqs :
        Answered(r) =>
            /\ Values(ctx[r].header, "Etag") = <<ctx[r].key>>
            /\ ctx[r].key = DeriveKey(ctx[r].rq, options.Headers)
            /\ Values(ctx[r].header, "X-Gin-Cache-Hit") = <<ctx[r].result>>

C9_Witness ==
    \E r \in Reqs :
        /\ Answered(r)
        /\ Done(r)
        /\ ctx[r].result = "HIT"
        /\ Values(ctx[r].cch.Header, "X-Gin-Cache-Hit") = <<"MISS">>
        /\ Values(ctx[r].header, "X-Gin-Cache-Hit") = <<"HIT">>

\* ---------------------------------------------------------------- C10
Keyed(r) == ctx[r].pc = "keyed"

AllowListed == {options.Headers[i] : i \in 1..Len(options.Headers)}

\* The value of header k on the request in slot r, as received and as joined.
Received(r, k) ==
    IF k \in DOMAIN ctx[r].rq.header THEN <<"set", ctx[r].rq.header[k]>> ELSE <<"unset", <<>>>>
ReceivedJoined(r, k) ==
    IF k \in DOMAIN ctx[r].rq.header THEN <<"set", Join(ctx[r].rq.header[k])>>
    ELSE <<"unset", "">>

SameKeyInputs(r1, r2) ==
    /\ ctx[r1].rq.uri = ctx[r2].rq.uri
    /\ \A k \in AllowListed : Received(r1, k) = Received(r2, k)

HasPrefix(key) == Len(key) >= Len(KEY_PREFIX) /\ SubSeq(key, 1, Len(KEY_PREFIX)) = KEY_PREFIX

\* C10, as claimed: the key is a function of the URI and the allow-listed header
\* values only, starts with gin:cache:, and changes when the URI changes or the value
\* of one allow-listed header changes while the rest stays fixed.
C10_KeyOfUriAndAllowListed ==
    \A r1, r2 \in Reqs :
        (Keyed(r1) /\ Keyed(r2)) =>
            /\ HasPrefix(ctx[r1].key)
            /\ SameKeyInputs(r1, r2) => ctx[r1].key = ctx[r2].key
            /\ ( /\ ctx[r1].rq.uri # ctx[r2].rq.uri
                 /\ \A k \in AllowListed : Received(r1, k) = Received(r2, k) )
               => ctx[r1].key # ctx[r2].key
            /\ ( /\ ctx[r1].rq.uri = ctx[r2].rq.uri
                 /\ \E k \in AllowListed :
                       /\ Received(r1, k) # Received(r2, k)
                       /\ \A j \in AllowListed \ {k} : Received(r1, j) = Received(r2, j) )
               => ctx[r1].key # ctx[r2].key

\* C10, amended: as claimed, but the key changes with one allow-listed header only
\* when that header's presence or the concatenation of its values changes: value
\* lists that join to the same string, as a, b and ab, give the same key.
C10_KeyOfUriAndJoinedValues ==
    \A r1, r2 \in Reqs :
        (Keyed(r1) /\ Keyed(r2)) =>
            /\ HasPrefix(ctx[r1].key)
            /\ SameKeyInputs(r1, r2) => ctx[r1].key = ctx[r2].key
            /\ ( /\ ctx[r1].rq.uri # ctx[r2].rq.uri
                 /\ \A k \in AllowListed : Received(r1, k) = Received(r2, k) )
               => ctx[r1].key # ctx[r2].key
            /\ ( /\ ctx[r1].rq.uri = ctx[r2].rq.uri
                 /\ \E k \in AllowListed :
                       /\ ReceivedJoined(r1, k) # ReceivedJoined(r2, k)
                       /\ \A j \in AllowListed \ {k} : Received(r1, j) = Received(r2, j) )
               => ctx[r1].key # ctx[r2].key

C10_Witness ==
    /\ Keyed(1) /\ Keyed(2)
    /\ "Accept" \in AllowListed
    /\ ctx[1].rq.uri = ctx[2].rq.uri
    /\ Received(1, "Accept") = <<"set", <<"a", "b">>>>
    /\ Received(2, "Accept") = <<"set", <<"ab">>>>
    /\ ctx[1].key = ctx[2].key

\* ---------------------------------------------------------------- C11
Stamped(r) == ctx[r].pc = "stamped"

\* floor(t / d) * d + d and floor(t / d), t being measured from the zero time.
NextMultiple(t, d) == ((((t - ZeroTime) \div d) * d) + d) + ZeroTime
BucketOf(t, d) == (t - ZeroTime) \div d

\* C11: for a duration D > 0 the expiration instant computed for a reference time t
\* is floor(t / D) * D + D, so that of two reference times t1 <= t2 those in the same
\* bucket get the same instant and those on opposite sides of a multiple of D get
\* instants a whole number of D, at least one, apart; for D = 0 the expiration
\* instant is the zero instant.
C11_BucketBoundary ==
    /\ \A r \in Reqs :
          Stamped(r) =>
              ctx[r].cch.ExpireAt = IF options.Expire = 0 THEN ZeroTime
                                    ELSE NextMultiple(ctx[r].timeNow, options.Expire)
    /\ \A r1, r2 \in Reqs :
          ( /\ Stamped(r1) /\ Stamped(r2)
            /\ options.Expire > 0
            /\ ctx[r1].timeNow <= ctx[r2].timeNow )
          => IF BucketOf(ctx[r1].timeNow, options.Expire) = BucketOf(ctx[r2].timeNow, options.Expire)
             THEN ctx[r1].cch.ExpireAt = ctx[r2].cch.ExpireAt
             ELSE \E k \in 1..(MaxTime + 1) :
                     ctx[r2].cch.ExpireAt - ctx[r1].cch.ExpireAt = k * options.Expire

C11_Witness ==
    /\ Stamped(1) /\ Stamped(2)
    /\ options.Expire > 1
    /\ ctx[1].timeNow < ctx[2].timeNow
    /\ (ctx[2].timeNow - ZeroTime) % options.Expire = 0
    /\ BucketOf(ctx[1].timeNow, options.Expire) # BucketOf(ctx[2].timeNow, options.Expire)
    /\ ctx[2].cch.ExpireAt = ctx[1].cch.ExpireAt + options.Expire
    /\ ctx[1].cch.ExpireAt = ctx[2].timeNow

\* ---------------------------------------------------------------- C12
\* C12, as claimed: for a duration D > 0 the remaining window computed for a reference
\* time is the bucket boundary minus that time and lies in [0, D), also when the
\* reference time is an exact multiple of D; for D = 0 it is 0.
C12_WindowBelowDuration ==
    \A r \in Reqs :
        Stamped(r) =>
            IF options.Expire = 0 THEN ctx[r].window = 0
            ELSE /\ ctx[r].window = ctx[r].cch.ExpireAt - ctx[r].timeNow
                 /\ ctx[r].window \in 0..(options.Expire - 1)

\* C12, amended: for a duration D > 0 the remaining window is the bucket boundary
\* minus the reference time and lies in (0, D], being D exactly when the reference
\* time is an exact multiple of D; for D = 0 it is 0.
C12_WindowUpToDuration ==
    \A r \in Reqs :
        Stamped(r) =>
            IF options.Expire = 0 THEN ctx[r].window = 0
            ELSE /\ ctx[r].window = ctx[r].cch.ExpireAt - ctx[r].timeNow
                 /\ ctx[r].window \in 1..options.Expire
                 /\ ctx[r].window = options.Expire
                       <=> (ctx[r].timeNow - ZeroTime) % options.Expire = 0

C12_Witness ==
    \E r \in Reqs :
        /\ Stamped(r)
        /\ options.Expire > 1
        /\ ctx[r].timeNow > 0
        /\ (ctx[r].timeNow - ZeroTime) % options.Expire = 0
        /\ ctx[r].window = options.Expire

\* ---------------------------------------------------------------- C13
\* Both slots hold a completed GET for one key, and both found no entry: neither
\* made its Store.Set before the other's Store.Get.
RacedMisses ==
    /\ host = "race"
    /\ Done(1) /\ Done(2)
    /\ EligibleReq(1) /\ EligibleReq(2)
    /\ ctx[1].key = ctx[2].key
    /\ ctx[1].found = "absent" /\ ctx[2].found = "absent"

BothRanAndSet == \A r \in Reqs : ctx[r].nexts = 1 /\ ctx[r].sets = 1

\* The Store holds under the key of the request in slot r the entry that request built.
StoredIs(r) ==
    /\ ctx[r].key \in DOMAIN store
    /\ store[ctx[r].key] = Encode(Captured(ctx[r]))

\* C13, as claimed: two GETs for one key that both find no entry both run downstream
\* and both call Store.Set, and once both have completed the Store holds the entry of
\* the one whose Store.Set came last.
C13_LastWriterWins ==
    RacedMisses =>
        /\ BothRanAndSet
        /\ \A r, q \in Reqs : ctx[q].setAt < ctx[r].setAt => StoredIs(r)

\* C13, amended: they both run downstream and both call Store.Set, and once both
\* have completed the Store holds the entry of the one whose Store.Set came first;
\* the later Store.Set returned ErrAlreadyExists and changed nothing.
C13_FirstWriterWins ==
    RacedMisses =>
        /\ BothRanAndSet
        /\ \A r, q \in Reqs :
              ctx[r].setAt < ctx[q].setAt =>
                  /\ StoredIs(r)
                  /\ ctx[r].setErr = "nil"
                  /\ ctx[q].setErr = "already exists"

C13_Witness ==
    /\ RacedMisses
    /\ ctx[1].setAt = 2 /\ ctx[2].setAt = 1
    /\ ctx[1].rwbody # ctx[2].rwbody
    /\ ctx[1].setErr = "already exists"
    /\ StoredIs(2) /\ ~StoredIs(1)

\* ---------------------------------------------------------------- C14
\* The response of the request in slot r is marked v.
MarkedAs(r, v) == Values(ctx[r].header, "X-Gin-Cache-Hit") = <<v>>

\* C14: when the bytes Store.Get returns do not decode to a Cached, the request is
\* treated as a miss (nothing of the bytes is served, downstream runs, the response
\* is marked MISS) and the lookup never ends in a panic.
C14_CorruptEntryIsMiss ==
    \A r \in Reqs :
        (EligibleReq(r) /\ ctx[r].found = "corrupt") =>
            /\ ctx[r].pc # "panic"
            /\ ctx[r].result = "MISS"
            /\ ctx[r].nexts = 1
            /\ MarkedAs(r, "MISS")

\* ---------------------------------------------------------------- C15
\* C15: a GET whose Store.Get fails, with ErrNotFound or with another error, is not
\* failed but goes on as a miss: the response is marked MISS, downstream runs once,
\* and when that has returned one Store.Set of the captured entry is made.
C15_GetFailureIsMiss ==
    /\ [](\A r \in Reqs :
            (EligibleReq(r) /\ ctx[r].found \in {"absent", "error"}) =>
                /\ ctx[r].pc \in {"next", "set", "done"}
                /\ ctx[r].result = "MISS"
                /\ MarkedAs(r, "MISS")
                /\ ~ctx[r].aborted
                /\ ctx[r].nexts = 1
                /\ ctx[r].sets = IF Done(r) THEN 1 ELSE 0)
    /\ [][\A r \in Reqs :
            (ctx[r].found \in {"absent", "error"} /\ ctx[r].pc = "set" /\ ctx'[r].pc # "set") =>
                /\ ctx'[r].pc = "done"
                /\ ctx'[r].sets = 1
                /\ ctx'[r].setErr = "nil" =>
                       store'[ctx[r].key] = Encode(Captured(ctx[r]))]_vars

C15_Witness ==
    \E r \in Reqs :
        /\ EligibleReq(r)
        /\ ctx[r].found = "error"
        /\ Done(r)
        /\ ctx[r].writes > 0
        /\ ctx[r].setErr = "nil"
        /\ StoredIs(r)

\* ---------------------------------------------------------------- C16
\* The Store.Set of the request in slot r returned an error.
SetFailed(r) == ctx[r].setErr \notin {"", "nil"}

\* C16: when the Store.Set of the miss path fails, as with ErrAlreadyExists, the
\* failure is reported, logged or attached to the context, the response is what the
\* downstream handlers made of it, and no second write, Set or Update, is made.
C16_SetFailureReported ==
    \A r \in Reqs :
        (Done(r) /\ ctx[r].result = "MISS" /\ SetFailed(r)) =>
            /\ ctx[r].errors > 0
            /\ ctx[r].body = ctx[r].rwbody
            /\ MarkedAs(r, "MISS")
            /\ ctx[r].sets = 1
            /\ ctx[r].updates = 0

\* ---------------------------------------------------------------- C17
\* The request in slot r is on the miss path and its downstream handlers are running.
Producing(r) == ctx[r].pc = "next" /\ ctx[r].result = "MISS"

\* C17: on the miss path Store.Set is called only when the downstream handlers have
\* returned: a request still producing its response has made no Store.Set, every
\* change of the Store is the Store.Set of a request whose downstream handlers have
\* returned and puts there an entry with the whole body of that request's response,
\* which grows no more, and so the body of an entry served to a request beside it
\* is a whole response body.
C17_SetAfterDownstream ==
    /\ [](\A r \in Reqs : Producing(r) => (ctx[r].sets = 0 /\ ctx[r].setAt = 0))
    /\ [][/\ \A r \in Reqs :
              /\ ctx'[r].sets > ctx[r].sets =>
                     (ctx[r].pc = "set" /\ ctx'[r].pc = "done" /\ ctx[r].nexts = 1)
              /\ (ctx[r].pc \in {"set", "done"} /\ ctx'[r].pc \in {"set", "done"}) =>
                     ctx'[r].body = ctx[r].body
          /\ store' # store =>
                 \E r \in Reqs :
                    /\ ctx[r].pc = "set" /\ ctx'[r].pc = "done"
                    /\ DOMAIN store' = DOMAIN store \cup {ctx[r].key}
                    /\ Decode(store'[ctx[r].key]).Body = ctx[r].body
                    /\ \A k \in DOMAIN store : store'[k] = store[k]
          /\ \A r \in Reqs :
                 (ctx[r].pc = "idle" /\ ctx'[r].result = "HIT") =>
                     ctx'[r].cch.Body = Decode(store[ctx'[r].key]).Body
      ]_vars

C17_Witness ==
    /\ host = "race"
    /\ Producing(1)
    /\ ctx[1].writes = 1
    /\ ctx[1].body = "he"
    /\ ctx[2].result = "HIT"
    /\ ctx[2].cch.Body = "hehe"
    /\ ctx[2].body = "hehe"

\* ---------------------------------------------------------------- C18
\* Over the Write calls a handler made: the bytes the ResponseWriter underneath
\* took, which is what the client gets of them with no cache in between, and the
\* arguments of the calls that returned no error.
RECURSIVE Forwarded(_)
Forwarded(calls) ==
    IF calls = <<>> THEN ""
    ELSE SubSeq(Head(calls).p, 1, Head(calls).n) \o Forwarded(Tail(calls))

RECURSIVE Accepted(_)
Accepted(calls) ==
    IF calls = <<>> THEN ""
    ELSE (IF Head(calls).err THEN "" ELSE Head(calls).p) \o Accepted(Tail(calls))

\* The request in slot r took the miss path and the Store holds what it persisted.
Persisted(r) ==
    /\ Done(r)
    /\ ctx[r].result = "MISS"
    /\ ctx[r].setErr = "nil"
    /\ ctx[r].key \in DOMAIN store

\* C18, as claimed: for every sequence of body writes on a miss the client gets the
\* bytes it gets of them without the cache, and the body of the entry persisted is
\* the concatenation of all bytes that were forwarded to the client.
C18_EntryIsWhatWasForwarded ==
    \A r \in Reqs :
        /\ ctx[r].result \in {"MISS", "BYPASS"} => ctx[r].body = Forwarded(ctx[r].calls)
        /\ Persisted(r) => Decode(store[ctx[r].key]).Body = Forwarded(ctx[r].calls)

\* C18, amended: the client gets the bytes it gets without the cache, and the body
\* of the entry persisted is the concatenation of the arguments of the writes that
\* returned no error; the bytes that a failing write did forward are not in it.
C18_EntryIsWhatWasAccepted ==
    \A r \in Reqs :
        /\ ctx[r].result \in {"MISS", "BYPASS"} => ctx[r].body = Forwarded(ctx[r].calls)
        /\ Persisted(r) => Decode(store[ctx[r].key]).Body = Accepted(ctx[r].calls)

C18_Witness ==
    \E r \in Reqs :
        /\ Persisted(r)
        /\ Len(ctx[r].calls) = 2
        /\ ctx[r].calls[1].err /\ ctx[r].calls[1].n = 1
        /\ ~ctx[r].calls[2].err
        /\ ctx[r].body = "hhe"
        /\ Decode(store[ctx[r].key]).Body = "he"

\* ---------------------------------------------------------------- C19
\* An expireAt e that a request with reference time t may store under a TTL d > 0:
\* a multiple of d, after t and at most d after it.
InBucketAfter(e, t, d) ==
    /\ (e - ZeroTime) % d = 0
    /\ t < e
    /\ e <= t + d

\* C19: with a TTL D > 0 the entry a request with reference time t builds and the
\* entry its Store.Set puts in the Store have an expireAt that is a multiple of D
\* with t < expireAt <= t + D, so it is not expired at t, and the max-age the
\* response and the entry carry is at most D.
C19_PersistedExpireAtInBucket ==
    /\ [](\A r \in Reqs :
            (options.Expire > 0 /\ ctx[r].result = "MISS" /\ ctx[r].pc \in {"set", "done"}) =>
                /\ InBucketAfter(Captured(ctx[r]).ExpireAt, ctx[r].timeNow, options.Expire)
                /\ ctx[r].window = Captured(ctx[r]).ExpireAt - ctx[r].timeNow
                /\ \E n \in 0..(options.Expire \div Second) :
                       Values(Captured(ctx[r]).Header, "Cache-Control") = <<getCacheControl(n)>>)
    /\ [][\A r \in Reqs :
            ( /\ options.Expire > 0
              /\ ctx[r].pc = "set" /\ ctx'[r].pc = "done"
              /\ ctx'[r].setErr = "nil" ) =>
                LET e == Decode(store'[ctx[r].key]).ExpireAt
                IN  /\ InBucketAfter(e, ctx[r].timeNow, options.Expire)
                    /\ ~(IsSet(e) /\ e <= ctx[r].timeNow)
                    /\ ~IsExpired(Decode(store'[ctx[r].key]), ctx[r].timeNow)
      ]_vars

C19_Witness ==
    \E r \in Reqs :
        /\ options.Expire > 1
        /\ Persisted(r)
        /\ StoredIs(r)
        /\ (ctx[r].timeNow - ZeroTime) % options.Expire # 0
        /\ ctx[r].now > ctx[r].timeNow
        /\ Decode(store[ctx[r].key]).ExpireAt = ctx[r].timeNow + 1

\* ---------------------------------------------------------------- C20
\* An entry that is expired at time t as the data model has it: its expireAt is set
\* and at or before t.
StaleAt(cch, t) == IsSet(cch.ExpireAt) /\ cch.ExpireAt <= t

\* C20: when a GET that found no entry or an expired one completes its miss path,
\* also when the Store.Remove of the expired entry failed, and its Store.Set met no
\* failure of the backend's own, the Store holds under the key an entry that is not
\* expired at the request's reference time.
C20_MissLeavesFreshEntry ==
    [][\A r \in Reqs :
         ( /\ ctx[r].pc = "set" /\ ctx'[r].pc = "done"
           /\ ctx[r].found \in {"absent", "expired"}
           /\ ctx'[r].setErr # "backend"
           /\ ctx[r].key \in DOMAIN store => store[ctx[r].key].gob ) =>
             /\ ctx[r].key \in DOMAIN store'
             /\ ~StaleAt(Decode(store'[ctx[r].key]), ctx[r].timeNow)
    ]_vars

====
